---- MODULE Spec2Model ----
(***************************************************************************)
(* Model of run_mcmc, the Metropolis-Hastings sampler of                   *)
(* 04-Implementing-MCMC.ipynb.  The notebook gives the function as a       *)
(* header, a loop header and one comment per step; every step is modelled  *)
(* the way its comment states it.                                          *)
(*                                                                         *)
(* Parameter vectors are abstracted to integer positions 0..MaxTheta.      *)
(* Log-probabilities are IEEE doubles restricted to -inf, +inf, NaN and    *)
(* the integers, measured in units of ln 2, so that exp() of the integer   *)
(* n is the power of two 2^n whenever a double can hold it.  A probability *)
(* is 0, a power of two given by its exponent, +inf or NaN.                *)
(***************************************************************************)
EXTENDS Integers, Sequences, FiniteSets, TLC

\* ---------------------------------------------------------------- bounds
MaxSteps == 2
MaxTheta == 1

\* ------------------------------------------------ double arithmetic
\* Smallest and largest n for which a double holds 2^n.
MinExp == -1074
MaxExp == 1023

NegInf == [k |-> "ninf", v |-> 0]
PosInf == [k |-> "pinf", v |-> 0]
NaN == [k |-> "nan", v |-> 0]
Fin(n) == [k |-> "fin", v |-> n]
\* An array entry that has been created but not yet written.
Blank == [k |-> "blank", v |-> 0]
BlankTheta == -1

IsFinite(a) == a.k = "fin"

\* L' - L in double arithmetic: inf - inf is NaN.
Sub(a, b) ==
    CASE a.k = "nan" \/ b.k = "nan" -> NaN
      [] a.k = "fin" /\ b.k = "fin" -> Fin(a.v - b.v)
      [] a.k = "fin" /\ b.k = "ninf" -> PosInf
      [] a.k = "fin" /\ b.k = "pinf" -> NegInf
      [] a.k = "ninf" /\ b.k = "ninf" -> NaN
      [] a.k = "ninf" -> NegInf
      [] a.k = "pinf" /\ b.k = "pinf" -> NaN
      [] OTHER -> PosInf

PZero == [k |-> "zero", e |-> 0]
PInf == [k |-> "inf", e |-> 0]
PNaN == [k |-> "nan", e |-> 0]
Pow(e) == [k |-> "pow", e |-> e]
One == Pow(0)

\* exp() of a log-probability: underflows to 0 and overflows to +inf.
Exp(d) ==
    CASE d.k = "nan" -> PNaN
      [] d.k = "ninf" -> PZero
      [] d.k = "pinf" -> PInf
      [] d.v < MinExp -> PZero
      [] d.v > MaxExp -> PInf
      [] OTHER -> Pow(d.v)

\* p > q on doubles: every comparison with NaN is false.
Gt(p, q) ==
    CASE p.k = "nan" \/ q.k = "nan" -> FALSE
      [] p.k = "inf" -> q.k # "inf"
      [] p.k = "pow" -> q.k = "zero" \/ (q.k = "pow" /\ p.e > q.e)
      [] OTHER -> FALSE

\* ---------------------------------------------------------------- inputs
Theta == 0 .. MaxTheta
LogVals == {NegInf, Fin(-1100), Fin(-2), Fin(0)}
StepSizes == {1, 2}
\* np.random.randn(), scaled down to three representative steps.
Normals == {-1, 0, 1}
\* np.random.rand(): a double in [0,1), 0 included.
Uniforms == {PZero, Pow(-2), Pow(-1)}

VARIABLES
    pc,             \* "call", "loop", "done" or "error"
    err,            \* the exception raised, "" if none
    log_posterior,  \* the callable, as a function Theta -> LogVals
    nsteps, theta0, stepsize,
    chain, log_probs,   \* the two arrays, indexed from 0
    i,              \* the loop variable
    theta, logp,    \* the old state and its log-probability
    theta_new, logp_new, p_accept, r,  \* locals of the last iteration
    accepted,       \* whether the last iteration took the accept branch
    proposals,      \* per iteration: candidate, new and old log-probability,
                    \* uniform draw, decision
    draws           \* random numbers consumed so far

vars == <<pc, err, log_posterior, nsteps, theta0, stepsize, chain, log_probs,
          i, theta, logp, theta_new, logp_new, p_accept, r, accepted,
          proposals, draws>>

Size(a) == Cardinality(DOMAIN a)

Init ==
    /\ pc = "call"
    /\ err = ""
    /\ log_posterior \in [Theta -> LogVals]
    /\ nsteps \in -1 .. MaxSteps
    /\ theta0 \in Theta
    /\ stepsize \in StepSizes
    /\ chain = << >>
    /\ log_probs = << >>
    /\ i = 0
    /\ theta = BlankTheta
    /\ logp = Blank
    /\ theta_new = BlankTheta
    /\ logp_new = Blank
    /\ p_accept = PNaN
    /\ r = PNaN
    /\ accepted = FALSE
    /\ proposals = << >>
    /\ draws = 0

\* The size of the two arrays.
ArraySizePlusOne(n) == n + 1
ArraySize(n) == n

\* What creating an array of size n and writing its row 0 raises: a
\* negative size is a ValueError, row 0 of an empty array an IndexError.
CreationErrorNegativeOnly(n) == IF n < 0 THEN "ValueError" ELSE ""
CreationError(n) ==
    IF n < 0 THEN "ValueError" ELSE IF n = 0 THEN "IndexError" ELSE ""

\* The function raises before the loop; neither array is returned.
CreateFail ==
    /\ pc = "call"
    /\ CreationError(ArraySize(nsteps)) # ""
    /\ pc' = "error"
    /\ err' = CreationError(ArraySize(nsteps))
    /\ UNCHANGED <<log_posterior, nsteps, theta0, stepsize, chain, log_probs,
                   i, theta, logp, theta_new, logp_new, p_accept, r,
                   accepted, proposals, draws>>

\* The first value of the loop variable: range(nsteps) starts at 0.
FirstIndex == 0

\* Create both arrays and initialise their first entries.
Create ==
    /\ pc = "call"
    /\ CreationError(ArraySize(nsteps)) = ""
    /\ chain' = [k \in 0 .. (ArraySize(nsteps) - 1) |->
                    IF k = 0 THEN theta0 ELSE BlankTheta]
    /\ log_probs' = [k \in 0 .. (ArraySize(nsteps) - 1) |->
                    IF k = 0 THEN log_posterior[theta0] ELSE Blank]
    /\ theta' = theta0
    /\ logp' = log_posterior[theta0]
    /\ i' = FirstIndex
    /\ pc' = "loop"
    /\ UNCHANGED <<err, log_posterior, nsteps, theta0, stepsize, theta_new,
                   logp_new, p_accept, r, accepted, proposals, draws>>

\* The row iteration j saves to.
Row(j) == j

\* The acceptance probability of a move from log-probability old to new.
AcceptanceProbabilitySwapped(new, old) == Exp(Sub(old, new))
AcceptanceProbability(new, old) == Exp(Sub(new, old))

\* "If p_accept>1 or p_accept>r, accept the step"
AcceptGe(p, u) == Gt(p, One) \/ (p.k # "nan" /\ ~Gt(u, p))
Accept(p, u) == Gt(p, One) \/ Gt(p, u)

\* What the else branch saves: the previous values.
PreviousNewLogp(t, l, tn, ln) == <<t, ln>>
Previous(t, l, tn, ln) == <<t, l>>

Outcome(t, l, tn, ln, p, u) ==
    IF Accept(p, u) THEN <<tn, ln>> ELSE Previous(t, l, tn, ln)

\* One pass through the body of "for i in range(nsteps)".
Iterate ==
    /\ pc = "loop"
    /\ i < nsteps
    /\ \E eps \in Normals, u \in Uniforms :
         LET tn == theta + stepsize * eps
             ln == log_posterior[tn]
             p == AcceptanceProbability(ln, logp)
             out == Outcome(theta, logp, tn, ln, p, u)
         IN /\ tn \in Theta
            /\ theta_new' = tn
            /\ logp_new' = ln
            /\ p_accept' = p
            /\ r' = u
            /\ accepted' = Accept(p, u)
            /\ chain' = [chain EXCEPT ![Row(i)] = out[1]]
            /\ log_probs' = [log_probs EXCEPT ![Row(i)] = out[2]]
            /\ theta' = out[1]
            /\ logp' = out[2]
            /\ proposals' = Append(proposals,
                  [theta |-> tn, logp |-> ln, old |-> logp, u |-> u,
                   accepted |-> Accept(p, u)])
            /\ draws' = draws + 2
    /\ i' = i + 1
    /\ UNCHANGED <<pc, err, log_posterior, nsteps, theta0, stepsize>>

\* "Return the chain and probabilities"
Return ==
    /\ pc = "loop"
    /\ i >= nsteps
    /\ pc' = "done"
    /\ UNCHANGED <<err, log_posterior, nsteps, theta0, stepsize, chain,
                   log_probs, i, theta, logp, theta_new, logp_new, p_accept,
                   r, accepted, proposals, draws>>

Next == CreateFail \/ Create \/ Iterate \/ Return

Spec == Init /\ [][Next]_vars

TypeOK ==
    /\ pc \in {"call", "loop", "done", "error"}
    /\ i \in 0 .. MaxSteps

\* ------------------------------------------------------------ vocabulary
Started == pc \in {"loop", "done"}
\* The rows written so far: row 0 at creation, row Row(j) by iteration j.
Written == {k \in DOMAIN chain : k = 0 \/ k < i}
Iterations == 1 .. Len(proposals)
\* The log-acceptance-ratio of iteration n (counted from 1).
Delta(n) == Sub(proposals[n].logp, proposals[n].old)

\* The log-domain decision rule: ln(r), a < b on doubles, and the two tests.
Ln(u) ==
    CASE u.k = "zero" -> NegInf
      [] u.k = "pow" -> Fin(u.e)
      [] u.k = "inf" -> PosInf
      [] OTHER -> NaN
Lt(a, b) ==
    CASE a.k = "nan" \/ b.k = "nan" -> FALSE
      [] a.k = "ninf" -> b.k # "ninf"
      [] a.k = "fin" -> b.k = "pinf" \/ (b.k = "fin" /\ a.v < b.v)
      [] OTHER -> FALSE
GeZero(d) == d.k = "pinf" \/ (d.k = "fin" /\ d.v >= 0)
SingleTest(d, u) == Lt(Ln(u), d)
TwoBranch(d, u) == IF GeZero(d) THEN TRUE ELSE SingleTest(d, u)
\* exp(d) is 0 although d is finite.
Underflows(d) == d.k = "fin" /\ d.v < MinExp

\* ------------------------------------------------------------------- C1
\* C1: every row written so far holds in log_probs the log-posterior of
\* the position it holds in chain, whether an acceptance or a rejection
\* wrote it.
C1_TraceMatchesChain ==
    Started => \A k \in Written : log_probs[k] = log_posterior[chain[k]]

\* A finished run whose first iteration accepted and whose second rejected
\* a candidate of a different log-posterior.
C1_Witness ==
    /\ pc = "done"
    /\ Len(proposals) = 2
    /\ proposals[1].accepted
    /\ ~proposals[2].accepted
    /\ proposals[2].logp # proposals[2].old
    /\ log_probs[1] = proposals[2].old

\* ------------------------------------------------------------------- C2
\* C2 as stated: a finished run returns two arrays of nsteps + 1 entries.
C2_LengthStepsPlusOne ==
    pc = "done" => Size(chain) = nsteps + 1 /\ Size(log_probs) = nsteps + 1

\* C2 amended: a finished run had nsteps >= 1 and returns two arrays of
\* exactly nsteps rows 0..nsteps-1, every row of both written; for
\* nsteps = 1 that is one row.
C2_LengthSteps ==
    pc = "done" =>
        /\ nsteps >= 1
        /\ DOMAIN chain = 0 .. (nsteps - 1)
        /\ DOMAIN log_probs = DOMAIN chain
        /\ \A k \in DOMAIN chain :
              chain[k] # BlankTheta /\ log_probs[k] # Blank

C2_Witness == pc = "done" /\ nsteps = 1 /\ Size(chain) = 1 /\ i = 1

\* ------------------------------------------------------------------- C3
\* C3: from creation on, row 0 is theta0 and its log-posterior; no
\* iteration changes it.
C3_RowZeroIsInitial ==
    Started => chain[0] = theta0 /\ log_probs[0] = log_posterior[theta0]

\* ------------------------------------------------------------------- C4
\* C4: in the arrays returned, every row j+1 is the candidate of iteration
\* j (counted from 0) with its log-posterior or a copy of row j, and equal
\* positions in rows j, j+1 come with equal log-probabilities.
C4_NextRowIsCandidateOrCopy ==
    pc = "done" =>
        \A j \in 0 .. (nsteps - 1) :
            j + 1 \in DOMAIN chain =>
                /\ \/ /\ chain[j + 1] = proposals[j + 1].theta
                      /\ log_probs[j + 1] = proposals[j + 1].logp
                   \/ /\ chain[j + 1] = chain[j]
                      /\ log_probs[j + 1] = log_probs[j]
                /\ chain[j + 1] = chain[j] => log_probs[j + 1] = log_probs[j]

C6_EscapeIntoRowOne ==
    (i >= 1 /\ log_posterior[theta0] = NegInf /\ IsFinite(proposals[1].logp))
        => /\ proposals[1].accepted
           /\ 1 \in DOMAIN chain
           /\ chain[1] = proposals[1].theta
           /\ log_probs[1] = proposals[1].logp

C9_WritesOnlyNextRow ==
    [][(pc = "loop" /\ i' = i + 1) =>
          \A k \in Written :
              chain'[k] = chain[k] /\ log_probs'[k] = log_probs[k]]_vars

====
